---------------------------- MODULE Spec2Model ----------------------------
(***************************************************************************)
(* Model of cuti-cli: the holiday scraper's driver loop (main.go) and the  *)
(* scraper package (scraper/scraper.go): FetchState's row loop,            *)
(* normalizeDate, normalizeState, Consolidate and unique.                  *)
(*                                                                         *)
(* Go strings are modelled as sequences of one-character strings, so that  *)
(* concatenation, replacement, case folding and byte-wise comparison are   *)
(* computed and not assumed.                                               *)
(***************************************************************************)
EXTENDS Integers, Sequences, FiniteSets, TLC

VARIABLES
    \* ---- main(): the pipeline driver
    pc,            \* position of main: "start", "loop", "consolidate", "save", "exit"
    year,          \* *year flag
    idx,           \* number of entries of `states` already iterated
    all,           \* var all []scraper.Holiday
    final,         \* final := scraper.Consolidate(all)
    format,        \* *format flag, as read by the switch
    calls,         \* history: the state arguments FetchState was called with
    url,           \* the URL buildURL produced in the latest FetchState call
    returned,      \* history: every record a FetchState call returned without error
    lastOutcome,   \* outcome of the latest FetchState call
    lastRows,      \* rows the page evaluation produced in the latest call
    lastHolidays,  \* holidays the latest call returned
    allBefore,     \* value of `all` before the latest call
    sawFailure,    \* history: some FetchState call has returned an error
    rowFetches,    \* number of FetchState calls that returned rows
    created,       \* number of browser sessions NewScraper created
    closed,        \* number of times Scraper.Close ran
    exitStatus,    \* process exit status once pc = "exit"
    \* ---- Consolidate as a function of its input
    holidays,      \* the input list
    result,        \* Consolidate(holidays)
    permuted,      \* a permutation of holidays
    result2,       \* Consolidate(permuted)
    cpc,
    \* ---- normalizeDate as a function of its input
    dateStr, dyear, dateOut, emitted, dpc,
    \* ---- normalizeState as a function of its input
    st, st1, st2, spc

driverVars == <<pc, year, idx, all, final, format, calls, url, returned,
                lastOutcome, lastRows, lastHolidays, allBefore, sawFailure,
                rowFetches, created, closed, exitStatus>>
consVars   == <<holidays, result, permuted, result2, cpc>>
dateVars   == <<dateStr, dyear, dateOut, emitted, dpc>>
stateVars  == <<st, st1, st2, spc>>
vars       == <<driverVars, consVars, dateVars, stateVars>>

---------------------------------------------------------------------------
(* Bounds of the model *)

\* longest free-text state label enumerated exhaustively
MaxLabelLen == 3
\* most spaces between the day and the month of an enumerated date text
MaxSpaces == 2
\* longest input list given to Consolidate
MaxHolidays == 3
\* most FetchState calls of one run that return rows
MaxRowFetches == 2

---------------------------------------------------------------------------
(* Strings *)

Digits == <<"0", "1", "2", "3", "4", "5", "6", "7", "8", "9">>
Upper  == <<"A", "B", "C", "D", "E", "F", "G", "H", "I", "J", "K", "L", "M", "N", "O", "P", "Q", "R", "S", "T", "U", "V", "W", "X", "Y", "Z">>
Lower  == <<"a", "b", "c", "d", "e", "f", "g", "h", "i", "j", "k", "l", "m", "n", "o", "p", "q", "r", "s", "t", "u", "v", "w", "x", "y", "z">>
\* the bytes used by the model, in ascending byte order
Ascii  == <<" ", "&", "-", "/">> \o Digits \o <<":">> \o Upper \o Lower \o <<"|">>

IndexOf(c, s) == CHOOSE k \in 1..Len(s) : s[k] = c
InSeq(c, s)   == \E k \in 1..Len(s) : s[k] = c
Ord(c)        == IndexOf(c, Ascii)
isDigit(s, i) == i < Len(s) /\ InSeq(s[i + 1], Digits)
DigitVal(c)   == IndexOf(c, Digits) - 1

RECURSIVE Flatten(_)
Flatten(ss) == IF ss = <<>> THEN <<>> ELSE Head(ss) \o Flatten(Tail(ss))

\* s1 < s2 on Go strings: byte-wise lexicographic, a proper prefix is smaller
RECURSIVE StrLess(_, _)
StrLess(a, b) ==
    IF b = <<>> THEN FALSE
    ELSE IF a = <<>> THEN TRUE
    ELSE IF Head(a) # Head(b) THEN Ord(Head(a)) < Ord(Head(b))
    ELSE StrLess(Tail(a), Tail(b))

\* strings.ToLower on ASCII text
ToLowerChar(c) == IF InSeq(c, Upper) THEN Lower[IndexOf(c, Upper)] ELSE c
ToLower(s)     == [k \in 1..Len(s) |-> ToLowerChar(s[k])]

\* strings.ReplaceAll(s, old, new) for a one-byte old
ReplaceAll(s, old, new) ==
    Flatten([k \in 1..Len(s) |-> IF s[k] = old THEN new ELSE <<s[k]>>])

\* fmt "%d"
RECURSIVE NatStr(_)
NatStr(n) == IF n < 10 THEN <<Digits[n + 1]>>
             ELSE NatStr(n \div 10) \o <<Digits[(n % 10) + 1]>>
FmtD(n) == IF n < 0 THEN <<"-">> \o NatStr(-n) ELSE NatStr(n)
\* fmt "%02d"
Fmt02D(n) == IF n >= 0 /\ n < 10 THEN <<"0">> \o NatStr(n) ELSE FmtD(n)

\* all strings over alphabet `cs` of length at most n
RECURSIVE StringsUpTo(_, _)
StringsUpTo(cs, n) ==
    IF n = 0 THEN {<<>>}
    ELSE LET shorter == StringsUpTo(cs, n - 1)
         IN  shorter \cup {<<c>> \o s : c \in cs, s \in {t \in shorter : Len(t) = n - 1}}

---------------------------------------------------------------------------
(* State-Name Canonicalizer: scraper.go normalizeState *)

\* A plausible slip: "&" spelled out with surrounding spaces after the spaces
\* have already been replaced.
normalizeStateSpacedAnd(s) ==
    LET a == ToLower(s)
        b == ReplaceAll(a, " ", <<"-">>)
        c == ReplaceAll(b, "&", <<" ", "a", "n", "d", " ">>)
    IN  CASE c = <<"m", "a", "l", "a", "c", "c", "a">> -> <<"m", "e", "l", "a", "k", "a">>
          [] c = <<"k", "u", "a", "l", "a", "l", "u", "m", "p", "u", "r">> -> <<"k", "u", "a", "l", "a", "-", "l", "u", "m", "p", "u", "r">>
          [] c \in {<<"p", "u", "t", "r", "a", "j", "a", "y", "a", "a", "n", "d", "-", "s", "e", "l", "a", "n", "g", "o", "r">>, <<"p", "u", "t", "r", "a", "j", "a", "y", "a", "-", "s", "e", "l", "a", "n", "g", "o", "r">>} -> <<"p", "u", "t", "r", "a", "j", "a", "y", "a">>
          [] OTHER -> c

normalizeState(s) ==
    LET a == ToLower(s)
        b == ReplaceAll(a, " ", <<"-">>)
        c == ReplaceAll(b, "&", <<"a", "n", "d">>)
    IN  CASE c = <<"m", "a", "l", "a", "c", "c", "a">> -> <<"m", "e", "l", "a", "k", "a">>
          [] c = <<"k", "u", "a", "l", "a", "l", "u", "m", "p", "u", "r">> -> <<"k", "u", "a", "l", "a", "-", "l", "u", "m", "p", "u", "r">>
          [] c \in {<<"p", "u", "t", "r", "a", "j", "a", "y", "a", "a", "n", "d", "-", "s", "e", "l", "a", "n", "g", "o", "r">>, <<"p", "u", "t", "r", "a", "j", "a", "y", "a", "-", "s", "e", "l", "a", "n", "g", "o", "r">>} -> <<"p", "u", "t", "r", "a", "j", "a", "y", "a">>
          [] OTHER -> c

---------------------------------------------------------------------------
(* Date Normalizer: scraper.go normalizeDate, with time.Parse for the two   *)
(* layouts "2 Jan" and "2 January"                                          *)

shortMonthNames ==
    << <<"J", "a", "n">>, <<"F", "e", "b">>, <<"M", "a", "r">>, <<"A", "p", "r">>, <<"M", "a", "y">>, <<"J", "u", "n">>,
       <<"J", "u", "l">>, <<"A", "u", "g">>, <<"S", "e", "p">>, <<"O", "c", "t">>, <<"N", "o", "v">>, <<"D", "e", "c">> >>
longMonthNames ==
    << <<"J", "a", "n", "u", "a", "r", "y">>, <<"F", "e", "b", "r", "u", "a", "r", "y">>, <<"M", "a", "r", "c", "h">>, <<"A", "p", "r", "i", "l">>, <<"M", "a", "y">>, <<"J", "u", "n", "e">>,
       <<"J", "u", "l", "y">>, <<"A", "u", "g", "u", "s", "t">>, <<"S", "e", "p", "t", "e", "m", "b", "e", "r">>, <<"O", "c", "t", "o", "b", "e", "r">>, <<"N", "o", "v", "e", "m", "b", "e", "r">>, <<"D", "e", "c", "e", "m", "b", "e", "r">> >>

\* time.daysIn(month, 0): a layout without a year leaves year 0, a leap year
daysIn(m) == IF m = 2 THEN 29 ELSE IF m \in {4, 6, 9, 11} THEN 30 ELSE 31

Drop(s, n) == SubSeq(s, n + 1, Len(s))

RECURSIVE cutspace(_)
cutspace(s) == IF s # <<>> /\ Head(s) = " " THEN cutspace(Tail(s)) ELSE s

\* time.match: equal up to the case of ASCII letters
match(s1, s2) ==
    /\ Len(s1) = Len(s2)
    /\ \A k \in 1..Len(s1) :
          \/ s1[k] = s2[k]
          \/ /\ ToLowerChar(s1[k]) = ToLowerChar(s2[k])
             /\ InSeq(ToLowerChar(s1[k]), Lower)

\* time.lookup: the months whose name is a prefix of val
lookup(tab, val) ==
    {m \in 1..Len(tab) : Len(val) >= Len(tab[m]) /\ match(SubSeq(val, 1, Len(tab[m])), tab[m])}

NoTime == [ok |-> FALSE, month |-> 0, day |-> 0]

\* time.Parse(layout, value), layout "2 Jan" (long = FALSE) or "2 January"
timeParse(long, value) ==
    LET v0   == value      \* only the "_2" day skips a leading space
        two  == isDigit(v0, 1)
        day  == IF two THEN 10 * DigitVal(v0[1]) + DigitVal(v0[2]) ELSE DigitVal(v0[1])
        v1   == Drop(v0, IF two THEN 2 ELSE 1)
        v2   == cutspace(v1)
        tab  == IF long THEN longMonthNames ELSE shortMonthNames
        hits == lookup(tab, v2)
        mon  == CHOOSE m \in hits : TRUE
    IN  IF ~isDigit(v0, 0) THEN NoTime                        \* getnum: no digit
        ELSE IF v1 # <<>> /\ Head(v1) # " " THEN NoTime       \* skip: layout space
        ELSE IF hits = {} THEN NoTime                         \* lookup: bad month
        ELSE IF Len(v2) # Len(tab[mon]) THEN NoTime           \* extra text
        ELSE IF day < 1 \/ day > daysIn(mon) THEN NoTime      \* day out of range
        ELSE [ok |-> TRUE, month |-> mon, day |-> day]

\* the first layout of `layouts` that parses, if any
parseLayouts(s) ==
    IF timeParse(FALSE, s).ok THEN timeParse(FALSE, s) ELSE timeParse(TRUE, s)

\* A plausible slip: the fallback keeps the text as it is.
normalizeDateKeepSpaces(s, y) ==
    LET t == parseLayouts(s)
    IN  IF t.ok THEN FmtD(y) \o <<"-">> \o Fmt02D(t.month) \o <<"-">> \o Fmt02D(t.day)
        ELSE FmtD(y) \o <<"-">> \o s

\* A plausible slip: month and day printed with "%d".
normalizeDateNoPad(s, y) ==
    LET t == parseLayouts(s)
    IN  IF t.ok THEN FmtD(y) \o <<"-">> \o FmtD(t.month) \o <<"-">> \o FmtD(t.day)
        ELSE FmtD(y) \o <<"-">> \o ReplaceAll(s, " ", <<"-">>)

normalizeDate(s, y) ==
    LET t == parseLayouts(s)
    IN  IF t.ok THEN FmtD(y) \o <<"-">> \o Fmt02D(t.month) \o <<"-">> \o Fmt02D(t.day)
        ELSE FmtD(y) \o <<"-">> \o ReplaceAll(s, " ", <<"-">>)

---------------------------------------------------------------------------
(* Page Extractor: scraper.go FetchState and buildURL *)

Holiday(date, day, name, sts) ==
    [Date |-> date, Day |-> day, Name |-> name, States |-> sts]

buildURL(state, y) ==
    <<"h", "t", "t", "p", "s", ":", "/", "/", "p", "u", "b", "l", "i", "c", "h", "o", "l", "i", "d", "a", "y", "s", ".", "c", "o", "m", ".", "m", "y", "/">> \o state \o <<"/">> \o FmtD(y) \o <<"-", "d", "a", "t", "e", "s", "/">>

\* the row loop of FetchState: a row of fewer than three cells is skipped
RECURSIVE rowLoop(_, _, _)
rowLoop(state, y, rows) ==
    IF rows = <<>> THEN <<>>
    ELSE LET r == Head(rows)
         IN  (IF Len(r) < 3 THEN <<>>
              ELSE <<Holiday(normalizeDate(r[1], y), r[2], r[3], <<normalizeState(state)>>)>>)
             \o rowLoop(state, y, Tail(rows))

\* what FetchState returns when the page evaluation succeeded with `rows`
FetchStateHolidays(state, y, rows) ==
    IF Len(rows) = 0 THEN <<>> ELSE rowLoop(state, y, rows)

---------------------------------------------------------------------------
(* Consolidator: scraper.go Consolidate and unique *)

\* A plausible slip: the list is returned as it came in.
uniqueKeepsAll(input) == input

RECURSIVE uniqueLoop(_, _)
uniqueLoop(seen, input) ==
    IF input = <<>> THEN <<>>
    ELSE IF Head(input) \in seen THEN uniqueLoop(seen, Tail(input))
    ELSE <<Head(input)>> \o uniqueLoop(seen \cup {Head(input)}, Tail(input))

unique(input) == uniqueLoop({}, input)

mergeKey(h) == h.Date \o <<"|">> \o h.Name

\* the body of the loop over the input: merged is the map[string]Holiday
mergeStep(merged, h) ==
    LET key == mergeKey(h)
    IN  IF key \in DOMAIN merged
        THEN [merged EXCEPT ![key].States = unique(@ \o h.States)]
        ELSE merged @@ (key :> [h EXCEPT !.States = unique(h.States)])

RECURSIVE mergeLoop(_, _)
mergeLoop(merged, hs) ==
    IF hs = <<>> THEN merged ELSE mergeLoop(mergeStep(merged, Head(hs)), Tail(hs))

\* "for _, h := range merged": Go leaves the iteration order of a map open
mapOrders(merged) ==
    LET keys == DOMAIN merged
        n    == Cardinality(keys)
    IN  {[k \in 1..n |-> merged[o[k]]] :
            o \in {f \in [1..n -> keys] : \A x \in keys : \E k \in 1..n : f[k] = x}}

dateLess(a, b) == StrLess(a.Date, b.Date)

\* sort.Slice(result, less) as an insertion sort
RECURSIVE insertSorted(_, _)
insertSorted(sorted, h) ==
    IF sorted = <<>> THEN <<h>>
    ELSE IF dateLess(h, Head(sorted)) THEN <<h>> \o sorted
    ELSE <<Head(sorted)>> \o insertSorted(Tail(sorted), h)

RECURSIVE sortLoop(_, _)
sortLoop(sorted, rest) ==
    IF rest = <<>> THEN sorted ELSE sortLoop(insertSorted(sorted, Head(rest)), Tail(rest))

\* A plausible slip: the sort step left out.
sortSliceSkipped(s) == s

sortSlice(s) == sortLoop(<<>>, s)

\* the lists Consolidate(hs) can return
Consolidate(hs) == {sortSlice(o) : o \in mapOrders(mergeLoop(<<>>, hs))}

---------------------------------------------------------------------------
(* Pipeline Driver: main.go main *)

states ==
    << <<"n", "a", "t", "i", "o", "n", "a", "l">>,
       <<"j", "o", "h", "o", "r">>, <<"k", "e", "d", "a", "h">>, <<"k", "e", "l", "a", "n", "t", "a", "n">>, <<"k", "u", "a", "l", "a", "-", "l", "u", "m", "p", "u", "r">>,
       <<"l", "a", "b", "u", "a", "n">>, <<"m", "e", "l", "a", "k", "a">>, <<"n", "e", "g", "e", "r", "i", "-", "s", "e", "m", "b", "i", "l", "a", "n">>, <<"p", "a", "h", "a", "n", "g">>,
       <<"p", "e", "n", "a", "n", "g">>, <<"p", "e", "r", "a", "k">>, <<"p", "e", "r", "l", "i", "s">>, <<"p", "u", "t", "r", "a", "j", "a", "y", "a">>,
       <<"s", "a", "b", "a", "h">>, <<"s", "a", "r", "a", "w", "a", "k">>, <<"s", "e", "l", "a", "n", "g", "o", "r">>, <<"t", "e", "r", "e", "n", "g", "g", "a", "n", "u">> >>

\* A plausible slip: a failed fetch throws away what was accumulated.
AccumulateResetOnError(acc, failed, hs) == IF failed THEN <<>> ELSE acc \o hs

\* "if err != nil { continue }; all = append(all, holidays...)"
Accumulate(acc, failed, hs) == IF failed THEN acc ELSE acc \o hs

---------------------------------------------------------------------------
(* Inputs *)

\* -year values of a run: the flag's default
Years == {2025}

\* -format values of a run
Formats == {<<"j", "s", "o", "n">>, <<"C", "S", "V">>, <<"x", "m", "l">>}

\* rows the in-page query can hand back: [date, day, name] cells
rowNewYear == << <<"1", " ", "J", "a", "n">>, <<"W", "e", "d", "n", "e", "s", "d", "a", "y">>, <<"N", "e", "w", " ", "Y", "e", "a", "r">> >>
rowNoDate  == << <<"3", "1", " ", "A", "p", "r">>, <<"T", "h", "u", "r", "s", "d", "a", "y">>, <<"S", "p", "e", "c", "i", "a", "l">> >>
rowShort   == << <<"1", " ", "J", "a", "n">>, <<"W", "e", "d", "n", "e", "s", "d", "a", "y">> >>
RowSets    == { <<rowNewYear>>, <<rowShort, rowNoDate>> }

\* input records of Consolidate
KL  == <<"k", "u", "a", "l", "a", "-", "l", "u", "m", "p", "u", "r">>
PJ  == <<"p", "u", "t", "r", "a", "j", "a", "y", "a">>
JHR == <<"j", "o", "h", "o", "r">>
HolidayPool ==
    { Holiday(<<"2", "0", "2", "5", "-", "0", "1", "-", "0", "1">>, <<"W", "e", "d", "n", "e", "s", "d", "a", "y">>, <<"N", "e", "w", " ", "Y", "e", "a", "r">>, <<KL>>),
      Holiday(<<"2", "0", "2", "5", "-", "0", "1", "-", "0", "1">>, <<"W", "e", "d", "n", "e", "s", "d", "a", "y">>, <<"N", "e", "w", " ", "Y", "e", "a", "r">>, <<PJ>>),
      Holiday(<<"2", "0", "2", "5", "-", "0", "1", "-", "0", "1">>, <<"T", "h", "u", "r", "s", "d", "a", "y">>, <<"N", "e", "w", " ", "Y", "e", "a", "r">>, <<KL, PJ, KL>>),
      Holiday(<<"2", "0", "2", "5", "-", "0", "1", "-", "0", "1">>, <<"W", "e", "d", "n", "e", "s", "d", "a", "y">>, <<"T", "h", "a", "i", "p", "u", "s", "a", "m">>, <<JHR>>),
      Holiday(<<"2", "0", "2", "4", "-", "1", "2", "-", "2", "5">>, <<"W", "e", "d", "n", "e", "s", "d", "a", "y">>, <<"C", "h", "r", "i", "s", "t", "m", "a", "s">>, <<JHR, JHR>>),
      Holiday(<<"2", "0", "2", "5", "-", "a", "|", "b">>, <<"M", "o", "n", "d", "a", "y">>, <<"c">>, <<JHR>>),
      Holiday(<<"2", "0", "2", "5", "-", "a">>, <<"M", "o", "n", "d", "a", "y">>, <<"b", "|", "c">>, <<KL>>) }

RECURSIVE ListsUpTo(_, _)
ListsUpTo(S, n) ==
    IF n = 0 THEN {<<>>}
    ELSE LET shorter == ListsUpTo(S, n - 1)
         IN  shorter \cup {<<x>> \o s : x \in S, s \in {t \in shorter : Len(t) = n - 1}}

Reorderings(s) ==
    {[k \in 1..Len(s) |-> s[p[k]]] :
        p \in {f \in [1..Len(s) -> 1..Len(s)] :
                  \A a, b \in 1..Len(s) : a # b => f[a] # f[b]}}

\* date texts: [space] digits spaces month-token [junk]
Range(s)     == {s[k] : k \in 1..Len(s)}
DayDigitSet  == {"0", "1", "3", "9"}
DayTexts     == StringsUpTo(DayDigitSet, 2) \cup {<<"2", "9">>, <<"0", "0", "1">>, <<"3", "1", "0">>}
Spaces(n)    == [k \in 1..n |-> " "]
MonthTokens  == Range(shortMonthNames) \cup Range(longMonthNames)
                   \cup {<<"j", "a", "n">>, <<"D", "E", "C">>, <<"J", "a", "n", "u">>, <<>>}
Affixes      == { <<<<>>, <<>>>>, <<<<" ">>, <<>>>>, <<<<>>, <<"x">>>> }
DateTexts    ==
    {af[1] \o d \o Spaces(n) \o m \o af[2] :
        af \in Affixes, d \in DayTexts, n \in 0..MaxSpaces, m \in MonthTokens}
DateYears    == {-5, 999, 1000, 2025, 9999, 10000}

\* state labels: every short string over a small alphabet, and real labels
NamedLabels ==
    Range(states) \cup
    { <<"M", "a", "l", "a", "c", "c", "a">>, <<"K", "u", "a", "l", "a", "L", "u", "m", "p", "u", "r">>, <<"K", "u", "a", "l", "a", " ", "L", "u", "m", "p", "u", "r">>, <<"P", "E", "N", "A", "N", "G">>, <<"N", "e", "g", "e", "r", "i", " ", "S", "e", "m", "b", "i", "l", "a", "n">>,
      <<"P", "u", "t", "r", "a", "j", "a", "y", "a", "&", " ", "S", "e", "l", "a", "n", "g", "o", "r">>, <<"P", "u", "t", "r", "a", "j", "a", "y", "a", " ", "S", "e", "l", "a", "n", "g", "o", "r">>, <<"P", "u", "t", "r", "a", "j", "a", "y", "a", " ", "&", " ", "S", "e", "l", "a", "n", "g", "o", "r">> }
Labels == StringsUpTo({"a", "A", " ", "&", "-"}, MaxLabelLen) \cup NamedLabels

---------------------------------------------------------------------------
(* Initial states *)

DriverStart ==
    /\ pc = "start" /\ idx = 0 /\ all = <<>> /\ final = <<>>
    /\ format = <<>> /\ calls = <<>> /\ url = <<>> /\ returned = <<>>
    /\ lastOutcome = "none" /\ lastRows = <<>> /\ lastHolidays = <<>>
    /\ allBefore = <<>> /\ sawFailure = FALSE /\ rowFetches = 0
    /\ created = 0 /\ closed = 0 /\ exitStatus = -1
ConsStart ==
    /\ result = <<>> /\ permuted = <<>> /\ result2 = <<>> /\ cpc = "input"
DateStart ==
    /\ dateOut = <<>> /\ emitted = <<>> /\ dpc = "input"
StateStart ==
    /\ st1 = <<>> /\ st2 = <<>> /\ spc = "input"

DriverIdle == DriverStart /\ year = 2025
ConsIdle   == ConsStart /\ holidays = <<>>
DateIdle   == DateStart /\ dateStr = <<>> /\ dyear = 2025
StateIdle  == StateStart /\ st = <<>>

\* a run of the command
Init == DriverStart /\ year \in Years /\ ConsIdle /\ DateIdle /\ StateIdle

\* Consolidate on an arbitrary input list
InitConsolidate ==
    /\ ConsStart /\ holidays \in ListsUpTo(HolidayPool, MaxHolidays)
    /\ DriverIdle /\ DateIdle /\ StateIdle

\* normalizeDate on an arbitrary date text and year
InitDate ==
    /\ DateStart /\ dateStr \in DateTexts /\ dyear \in DateYears
    /\ DriverIdle /\ ConsIdle /\ StateIdle

\* normalizeState on an arbitrary label
InitState ==
    /\ StateStart /\ st \in Labels
    /\ DriverIdle /\ ConsIdle /\ DateIdle

---------------------------------------------------------------------------
(* main() *)

\* s := scraper.NewScraper(*headless); defer s.Close()
NewScraper ==
    /\ pc = "start"
    /\ created' = created + 1
    /\ pc' = "loop"
    /\ UNCHANGED <<year, idx, all, final, format, calls, url, returned, lastOutcome,
                   lastRows, lastHolidays, allBefore, sawFailure, rowFetches,
                   closed, exitStatus>>
    /\ UNCHANGED <<consVars, dateVars, stateVars>>

\* one iteration of "for i, st := range states": FetchState(st, *year), then
\* either "continue" or the append
Iterate(failed, rows) ==
    LET state == states[idx + 1]
        hs    == IF failed THEN <<>> ELSE FetchStateHolidays(state, year, rows)
    IN  /\ pc = "loop"
        /\ idx < Len(states)
        /\ calls' = Append(calls, state)
        /\ url' = buildURL(state, year)
        /\ lastRows' = rows
        /\ lastHolidays' = hs
        /\ lastOutcome' = IF failed THEN "error" ELSE IF Len(rows) = 0 THEN "empty" ELSE "rows"
        /\ returned' = IF failed THEN returned ELSE returned \o hs
        /\ allBefore' = all
        /\ all' = Accumulate(all, failed, hs)
        /\ idx' = idx + 1
        /\ sawFailure' = (sawFailure \/ failed)
        /\ rowFetches' = IF ~failed /\ Len(rows) > 0 THEN rowFetches + 1 ELSE rowFetches
        /\ UNCHANGED <<pc, year, final, format, created, closed, exitStatus>>
        /\ UNCHANGED <<consVars, dateVars, stateVars>>

\* chromedp.Run returned an error: timeout or failed navigation
FetchError == Iterate(TRUE, <<>>)

\* the page evaluation found no heading, no table or no row
FetchEmpty == Iterate(FALSE, <<>>)

\* the page evaluation returned rows
FetchRows ==
    /\ rowFetches < MaxRowFetches
    /\ \E rows \in RowSets : Iterate(FALSE, rows)

\* final := scraper.Consolidate(all)
RunConsolidate ==
    /\ pc = "loop"
    /\ idx = Len(states)
    /\ final' \in Consolidate(all)
    /\ pc' = "save"
    /\ UNCHANGED <<year, idx, all, format, calls, url, returned, lastOutcome, lastRows,
                   lastHolidays, allBefore, sawFailure, rowFetches, created,
                   closed, exitStatus>>
    /\ UNCHANGED <<consVars, dateVars, stateVars>>

\* how main ends: by returning, which runs the deferred s.Close(), or by
\* log.Fatal, which exits the process with status 1 at once
Leave(fmt, fatal) ==
    /\ pc = "save"
    /\ format' = fmt
    /\ closed' = IF fatal THEN closed ELSE closed + 1
    /\ exitStatus' = IF fatal THEN 1 ELSE 0
    /\ pc' = "exit"
    /\ UNCHANGED <<year, idx, all, final, calls, url, returned, lastOutcome, lastRows,
                   lastHolidays, allBefore, sawFailure, rowFetches, created>>
    /\ UNCHANGED <<consVars, dateVars, stateVars>>

Supported(fmt) == ToLower(fmt) \in {<<"j", "s", "o", "n">>, <<"c", "s", "v">>}

\* case "json", case "csv": the file was written
SaveWritten == \E fmt \in Formats : Supported(fmt) /\ Leave(fmt, FALSE)

\* case "json", case "csv": SaveJSON or saveCSV returned an error
SaveFailed == \E fmt \in Formats : Supported(fmt) /\ Leave(fmt, TRUE)

\* default: log.Fatalf("Unsupported format: %s", *format)
SaveUnsupported == \E fmt \in Formats : ~Supported(fmt) /\ Leave(fmt, TRUE)

Next ==
    \/ NewScraper
    \/ FetchError
    \/ FetchEmpty
    \/ FetchRows
    \/ RunConsolidate
    \/ SaveWritten
    \/ SaveFailed
    \/ SaveUnsupported

Spec == Init /\ [][Next]_vars

---------------------------------------------------------------------------
(* Consolidate applied to an input list and to a permutation of it *)

CallConsolidate ==
    /\ cpc = "input"
    /\ result' \in Consolidate(holidays)
    /\ cpc' = "done"
    /\ UNCHANGED <<holidays, permuted, result2>>
    /\ UNCHANGED <<driverVars, dateVars, stateVars>>

CallConsolidatePermuted ==
    /\ cpc = "done"
    /\ \E p \in Reorderings(holidays) :
          /\ permuted' = p
          /\ result2' \in Consolidate(p)
    /\ cpc' = "both"
    /\ UNCHANGED <<holidays, result>>
    /\ UNCHANGED <<driverVars, dateVars, stateVars>>

NextConsolidate == CallConsolidate \/ CallConsolidatePermuted

SpecConsolidate == InitConsolidate /\ [][NextConsolidate]_vars

---------------------------------------------------------------------------
(* normalizeDate applied to a date text, and FetchState's row loop applied *)
(* to the row that carries it                                              *)

CallNormalizeDate ==
    /\ dpc = "input"
    /\ dateOut' = normalizeDate(dateStr, dyear)
    /\ dpc' = "normalized"
    /\ UNCHANGED <<dateStr, dyear, emitted>>
    /\ UNCHANGED <<driverVars, consVars, stateVars>>

CallFetchStateRow ==
    /\ dpc = "normalized"
    /\ emitted' = FetchStateHolidays(JHR, dyear, << <<dateStr, <<"M", "o", "n", "d", "a", "y">>, <<"S", "p", "e", "c", "i", "a", "l">>>> >>)
    /\ dpc' = "emitted"
    /\ UNCHANGED <<dateStr, dyear, dateOut>>
    /\ UNCHANGED <<driverVars, consVars, stateVars>>

NextDate == CallNormalizeDate \/ CallFetchStateRow

SpecDate == InitDate /\ [][NextDate]_vars

---------------------------------------------------------------------------
(* normalizeState applied once and twice *)

CallNormalizeState ==
    /\ spc = "input"
    /\ st1' = normalizeState(st)
    /\ spc' = "once"
    /\ UNCHANGED <<st, st2>>
    /\ UNCHANGED <<driverVars, consVars, dateVars>>

CallNormalizeStateAgain ==
    /\ spc = "once"
    /\ st2' = normalizeState(st1)
    /\ spc' = "twice"
    /\ UNCHANGED <<st, st1>>
    /\ UNCHANGED <<driverVars, consVars, dateVars>>

NextState == CallNormalizeState \/ CallNormalizeStateAgain

SpecState == InitState /\ [][NextState]_vars

---------------------------------------------------------------------------
(* Properties *)

SetOf(s)      == {s[k] : k \in 1..Len(s)}
SamePair(a, b) == a.Date = b.Date /\ a.Name = b.Name

\* a <= b on strings, stated by the first position where they differ
LexLeq(a, b) ==
    \/ Len(a) <= Len(b) /\ \A k \in 1..Len(a) : a[k] = b[k]
    \/ \E k \in 1..Len(a) :
          /\ k <= Len(b)
          /\ \A j \in 1..(k - 1) : a[j] = b[j]
          /\ Ord(a[k]) < Ord(b[k])

\* the mapping (date, name) -> set of states a list of records defines
Mapping(hs) == {<<hs[k].Date, hs[k].Name, SetOf(hs[k].States)>> : k \in 1..Len(hs)}

\* C1: every (date, name) pair of the input of Consolidate appears in exactly
\* one output record, whose states as a set are the union of the states of the
\* input records with that pair, and every output record carries a pair of the
\* input: records with different pairs are never merged, also when a date or a
\* name contains "|".
C1_PairsKeptApart ==
    cpc # "input" =>
        /\ \A k \in 1..Len(holidays) :
              LET same == {j \in 1..Len(result) : SamePair(result[j], holidays[k])}
              IN  /\ Cardinality(same) = 1
                  /\ \A j \in same :
                        SetOf(result[j].States) =
                            UNION {SetOf(holidays[m].States) :
                                      m \in {n \in 1..Len(holidays) :
                                                SamePair(holidays[n], holidays[k])}}
        /\ \A j \in 1..Len(result) :
              \E k \in 1..Len(holidays) : SamePair(result[j], holidays[k])

\* C2: FetchState is never called with state "national", and no URL is built
\* for it.
C2_NationalNeverFetched ==
    /\ \A k \in 1..Len(calls) : calls[k] # <<"n", "a", "t", "i", "o", "n", "a", "l">>
    /\ url # buildURL(<<"n", "a", "t", "i", "o", "n", "a", "l">>, year)

\* C3: a FetchState call that fails or returns no rows leaves the accumulated
\* list as it was, the loop goes on to every later state (the run reaches
\* Consolidate only after FetchState was called for the whole list, and ends
\* only after that), and the list handed to Consolidate holds every record
\* that the calls without error returned.
C3_FailureContained ==
    /\ lastOutcome \in {"error", "empty"} => all = allBefore /\ lastHolidays = <<>>
    /\ pc = "loop" => calls = SubSeq(states, 1, idx)
    /\ pc \in {"save", "exit"} => calls = states
    /\ all = returned

\* C3 witness: after an earlier call failed, a later state was fetched and its
\* rows were added to records that earlier states had contributed.
C3_Witness ==
    /\ sawFailure
    /\ lastOutcome = "rows"
    /\ lastHolidays # <<>>
    /\ allBefore # <<>>
    /\ all = allBefore \o lastHolidays

\* C4: the browser session is created exactly once before the first fetch, and
\* on every way the run ends Close has run exactly once.
C4_SessionReleased ==
    /\ calls # <<>> => created = 1
    /\ pc = "exit" => created = 1 /\ closed = 1

\* C5: the list Consolidate returns is in ascending order of the date string:
\* of two adjacent records the first one's date is less than or equal to the
\* second one's.
C5_SortedByDate ==
    cpc # "input" =>
        \A k \in 1..(Len(result) - 1) : LexLeq(result[k].Date, result[k + 1].Date)

\* C5 witness: an input whose dates come in descending order somewhere, and an
\* output of at least three records.
C5_Witness ==
    /\ cpc = "done"
    /\ Len(result) >= 3
    /\ \E k \in 1..(Len(holidays) - 1) :
          /\ holidays[k].Date # holidays[k + 1].Date
          /\ LexLeq(holidays[k + 1].Date, holidays[k].Date)

\* C6: Consolidate of a list and Consolidate of any permutation of it define
\* the same mapping from (date, name) to the set of states.
C6_OrderInsensitive ==
    cpc = "both" => Mapping(result) = Mapping(result2)

DigitChars == SetOf(Digits)
RECURSIVE DecVal(_)
DecVal(s) == IF s = <<>> THEN 0 ELSE 10 * DecVal(SubSeq(s, 1, Len(s) - 1)) + DigitVal(s[Len(s)])
IsDecimal(s) == s # <<>> /\ \A k \in 1..Len(s) : s[k] \in DigitChars
IsSigned(s)  == IsDecimal(s) \/ (s # <<>> /\ Head(s) = "-" /\ IsDecimal(Tail(s)))
SignedVal(s) == IF Head(s) = "-" THEN 0 - DecVal(Tail(s)) ELSE DecVal(s)

Parses(s) == parseLayouts(s).ok
\* the day number and the month written in a date text
TextDay(s)   == DecVal(SelectSeq(s, LAMBDA c : c \in DigitChars))
TextMonth(s) ==
    LET letters == ToLower(SelectSeq(s, LAMBDA c : c \in SetOf(Upper) \cup SetOf(Lower)))
    IN  CHOOSE m \in 1..12 : SubSeq(letters, 1, 3) = ToLower(shortMonthNames[m])

IsoDateOf(out, s, y) ==
    /\ Len(out) = 10
    /\ out[5] = "-" /\ out[8] = "-"
    /\ \A k \in {1, 2, 3, 4, 6, 7, 9, 10} : out[k] \in DigitChars
    /\ DecVal(SubSeq(out, 1, 4)) = y
    /\ DecVal(SubSeq(out, 6, 7)) = TextMonth(s)
    /\ DecVal(SubSeq(out, 9, 10)) = TextDay(s)

\* C7 as stated: for a date text that parses and every integer year the result
\* is YYYY-MM-DD, a four-digit year field equal to the year, the two-digit
\* month and the two-digit day of the text.
C7_IsoDateAnyYear ==
    (dpc # "input" /\ Parses(dateStr)) => IsoDateOf(dateOut, dateStr, dyear)

\* C7 amended: for a date text that parses and a year from 1000 to 9999 the
\* result is YYYY-MM-DD, a four-digit year field equal to the year, the
\* two-digit month and the two-digit day of the text.
C7_IsoDateFourDigitYear ==
    (dpc # "input" /\ Parses(dateStr) /\ dyear \in 1000..9999)
        => IsoDateOf(dateOut, dateStr, dyear)

\* C7 witness: a one-digit day with a full month name, normalized for 2025.
C7_Witness ==
    /\ dpc = "normalized"
    /\ dateStr = <<"9", " ", "F", "e", "b", "r", "u", "a", "r", "y">>
    /\ dyear = 2025
    /\ dateOut = <<"2", "0", "2", "5", "-", "0", "2", "-", "0", "9">>

\* C8: normalizeState applied to its own result gives that result again.
C8_Idempotent ==
    spc = "twice" => st2 = st1

\* C8 witness: a label renamed by the special-case table, normalized twice.
C8_Witness ==
    /\ spc = "twice"
    /\ st = <<"P", "u", "t", "r", "a", "j", "a", "y", "a", "&", " ", "S", "e", "l", "a", "n", "g", "o", "r">>
    /\ st1 = <<"p", "u", "t", "r", "a", "j", "a", "y", "a">>

\* the fallback marker of text s and year y: the year in decimal, a hyphen,
\* then s with every space turned into a hyphen
IsMarkerOf(out, s, y) ==
    LET n == Len(out) - Len(s) - 1
    IN  /\ n >= 1
        /\ IsSigned(SubSeq(out, 1, n))
        /\ SignedVal(SubSeq(out, 1, n)) = y
        /\ out[n + 1] = "-"
        /\ \A k \in 1..Len(s) : out[n + 1 + k] = IF s[k] = " " THEN "-" ELSE s[k]

C10_StatesUnique ==
    cpc # "input" =>
        \A j \in 1..Len(result) :
            \A a, b \in 1..Len(result[j].States) :
                a # b => result[j].States[a] # result[j].States[b]

\* C10 witness: an input with a record that repeats a state in its own list
\* and with two records of one (date, name) that carry the same state.
C10_Witness ==
    /\ cpc = "done"
    /\ \E k \in 1..Len(holidays) : Len(holidays[k].States) > Cardinality(SetOf(holidays[k].States))
    /\ \E k, m \in 1..Len(holidays) :
          /\ k # m
          /\ SamePair(holidays[k], holidays[m])
          /\ SetOf(holidays[k].States) \cap SetOf(holidays[m].States) # {}
    /\ \E j \in 1..Len(result) : Len(result[j].States) >= 2

=============================================================================
